---- MODULE Spec2Model ----
(***************************************************************************)
(* Vocabulary trainer: the SQLite store (vocabulary + lessons tables), the *)
(* initialization pipeline ensureDbInitialized (createTables,              *)
(* checkIfHasData, tryRestoreFromBackup, importSeedFiles, safeCloseSqlite) *)
(* and the mutating API operations (DatabaseService, POST /lessons,        *)
(* POST /admin/import, createAutoBackup).                                  *)
(***************************************************************************)
EXTENDS Integers, Sequences, FiniteSets, Bags, TLC

VARIABLES
  vocabulary,   \* rows of table vocabulary: records [id, lesson, de, en]
  autoinc,      \* sqlite_sequence of vocabulary: the largest id ever assigned
  lessons,      \* rows of table lessons: function slug number -> row
  uniqueKey,    \* TRUE when table vocabulary carries UNIQUE(lesson, de, en)
  backupFile,   \* content of <root>/data/backups/auto-backup.json
  seedFiles,    \* content of vocab-lessonNN.json, per seed lesson
  pc,           \* position of the process: stopped, inside ensureDbInitialized, serving
  handle,       \* the sqlite3.Database opened by ensureDbInitialized
  openStmts,    \* prepared statements of that handle not yet finalized
  outcome,      \* how the current ensureDbInitialized run ends
  run,          \* what the current ensureDbInitialized run has done so far
  pre,          \* the store as the current run found it
  epoch,        \* number of process starts so far (the clock of created_at)
  requests,     \* number of API requests the clients still send
  clients,      \* "paced": a request is sent when the server is idle; "burst": anytime
  backupDir,    \* where createAutoBackup writes: "default" (<root>/data/backups) or
                \* "override" (AUTO_BACKUP_DIR names another directory)
  overrideFile, \* content of <AUTO_BACKUP_DIR>/auto-backup.json
  creating,     \* bag of the POST /lessons requests between their read of the slugs
                \* and their writes
  backups,      \* bag of the createAutoBackup() invocations in flight
  lastBackup,   \* how the createAutoBackup() invocation that settled last ended
  last,         \* the last API request and its result
  state,        \* the browser's state object: currentLesson and vocab
  page          \* the browser's page: the words shown and the fetches in flight

vars == <<vocabulary, autoinc, lessons, uniqueKey, backupFile, seedFiles, pc,
          handle, openStmts, outcome, run, pre, epoch, requests, clients,
          backupDir, overrideFile, creating, backups, lastBackup, last, state, page>>

----------------------------------------------------------------------------
(* Bounds of the model *)

MaxLesson == 2      \* lesson slugs lesson01 .. lesson<MaxLesson> occur
MaxId == 3          \* AUTOINCREMENT ids 1 .. MaxId are handed out
MaxRuns == 2        \* process starts
MaxOps == 1         \* API requests over all runs
MaxBurst == 2       \* API requests over all runs, where clients send in bursts
MaxFetches == 6     \* initVocab() calls of one page

(* Program constants *)

SeedLessonCount == 5    \* ['lesson01', ..., 'lesson05']
LessonLimit == 99       \* nextNumber > 99 is rejected

NULL == "NULL"

\* The length limit of de and en in the routes that validate them
MaxTextLength == 60

\* A text of 61 characters
LongText == "Donaudampfschifffahrtsgesellschaftskapitaensmuetzenabzeichen1"

TooLong(t) == Len(t) > MaxTextLength
LessonIds == 1 .. MaxLesson
De == {"Haus", "Baum"}
En == {"house"}

----------------------------------------------------------------------------
(* The store: table vocabulary *)

Key(r) == <<r.lesson, r.de, r.en>>

Keys(voc) == {Key(r) : r \in voc}

Ids(voc) == {r.id : r \in voc}

RowsWithKey(voc, k) == {r \in voc : Key(r) = k}

Row(i, k) == [id |-> i, lesson |-> k[1], de |-> k[2], en |-> k[3]]

\* NOT NULL on lesson, de, en
NotNullOk(k) == k[2] # NULL /\ k[3] # NULL

\* UNIQUE(lesson, de, en), when the table was created with it
UniqueConflict(voc, uq, k) == uq /\ k \in Keys(voc)

\* A store value: the two tables and the AUTOINCREMENT counter
Store(voc, ai, les) == [voc |-> voc, ai |-> ai, les |-> les]

\* Mutant: the single-entry insert written as INSERT OR IGNORE
PlainInsertIgnoring(st, uq, k) ==
  IF ~NotNullOk(k) \/ UniqueConflict(st.voc, uq, k)
  THEN [st |-> st, err |-> "none", id |-> 0]
  ELSE [st |-> [st EXCEPT !.voc = @ \cup {Row(st.ai + 1, k)}, !.ai = @ + 1],
        err |-> "none", id |-> st.ai + 1]

\* INSERT INTO vocabulary (lesson, de, en) VALUES (?, ?, ?)
\* result: the new store and the error, if any
PlainInsert(st, uq, k) ==
  IF ~NotNullOk(k) \/ UniqueConflict(st.voc, uq, k)
  THEN [st |-> st, err |-> "SQLITE_CONSTRAINT", id |-> 0]
  ELSE [st |-> [st EXCEPT !.voc = @ \cup {Row(st.ai + 1, k)}, !.ai = @ + 1],
        err |-> "none", id |-> st.ai + 1]

\* INSERT OR IGNORE INTO vocabulary (lesson, de, en) VALUES (?, ?, ?)
InsertOrIgnore(st, uq, k) ==
  IF ~NotNullOk(k) \/ UniqueConflict(st.voc, uq, k)
  THEN st
  ELSE [st EXCEPT !.voc = @ \cup {Row(st.ai + 1, k)}, !.ai = @ + 1]

\* Mutant: an UPDATE that the UNIQUE constraint does not guard
UpdateRowUnchecked(st, uq, i, d, e) ==
  IF i \notin Ids(st.voc)
  THEN [st |-> st, err |-> "none", changes |-> 0]
  ELSE LET old == CHOOSE r \in st.voc : r.id = i
       IN [st |-> [st EXCEPT !.voc = (@ \ {old}) \cup {Row(i, <<old.lesson, d, e>>)}],
           err |-> "none", changes |-> 1]

\* UPDATE vocabulary SET de = ?, en = ? WHERE id = ?
UpdateRow(st, uq, i, d, e) ==
  IF i \notin Ids(st.voc)
  THEN [st |-> st, err |-> "none", changes |-> 0]
  ELSE LET old == CHOOSE r \in st.voc : r.id = i
           k == <<old.lesson, d, e>>
       IN IF UniqueConflict(st.voc \ {old}, uq, k)
          THEN [st |-> st, err |-> "SQLITE_CONSTRAINT", changes |-> 0]
          ELSE [st |-> [st EXCEPT !.voc = (@ \ {old}) \cup {Row(i, k)}],
                err |-> "none", changes |-> 1]

\* Mutant: the DELETE written with id >= ?
DeleteRowAndLater(st, i) ==
  [st |-> [st EXCEPT !.voc = {r \in @ : r.id < i}],
   changes |-> Cardinality({r \in st.voc : r.id >= i})]

\* DELETE FROM vocabulary WHERE id = ?
DeleteRow(st, i) ==
  [st |-> [st EXCEPT !.voc = {r \in @ : r.id # i}],
   changes |-> Cardinality({r \in st.voc : r.id = i})]

\* DELETE FROM vocabulary WHERE id NOT IN
\*   (SELECT MIN(id) FROM vocabulary GROUP BY lesson, de, en)
MinId(rows) == CHOOSE i \in Ids(rows) : \A j \in Ids(rows) : i <= j

\* Mutant: the dedup pass without its GROUP BY keeps the lowest id of the table only
RemoveDuplicatesUngrouped(voc) ==
  {r \in voc : r.id = MinId(voc)}

\* Mutant: the dedup pass keeps the highest id of each key (MAX for MIN)
RemoveDuplicatesKeepMax(voc) ==
  {r \in voc : \A q \in RowsWithKey(voc, Key(r)) : q.id <= r.id}

RemoveDuplicates(voc) ==
  {r \in voc : r.id = MinId(RowsWithKey(voc, Key(r)))}

----------------------------------------------------------------------------
(* The store: table lessons *)

\* 'Lektion ' + the two digits of the slug
Title(n) == <<"Lektion", n>>

LessonRow(t, d, c, at) ==
  [title |-> t, description |-> d, entry_count |-> c, created_at |-> at]

\* INSERT OR REPLACE INTO lessons (slug, ...) : the row of the slug is replaced whole
Upsert(les, slug, row) ==
  [s \in (DOMAIN les) \cup {slug} |-> IF s = slug THEN row ELSE les[s]]

NoLessons == [s \in {} |-> LessonRow(Title(0), NULL, 0, 0)]

----------------------------------------------------------------------------
(* Files: the snapshot auto-backup.json and the seed files *)

\* An element of the snapshot's "lessons" array (null: the JSON value null)
SnapLesson(n, t, d, c, at) ==
  [isNull |-> FALSE, slug |-> n, title |-> t, description |-> d,
   entry_count |-> c, created_at |-> at]

NullLesson == [isNull |-> TRUE, slug |-> 0, title |-> Title(0), description |-> NULL,
               entry_count |-> 0, created_at |-> 0]

\* An element of the snapshot's "vocabulary" array
SnapVocab(i, n, d, e) == [isNull |-> FALSE, id |-> i, lesson |-> n, de |-> d, en |-> e]

NullVocab == [isNull |-> TRUE, id |-> 0, lesson |-> 0, de |-> NULL, en |-> NULL]

\* A snapshot file: absent, not JSON, or a JSON document that may lack either array
JsonFile(hasL, ls, hasV, vs) ==
  [kind |-> "json", hasLessons |-> hasL, lessons |-> ls,
   hasVocabulary |-> hasV, vocabulary |-> vs]

AbsentFile == [kind |-> "absent", hasLessons |-> FALSE, lessons |-> <<>>,
               hasVocabulary |-> FALSE, vocabulary |-> <<>>]

InvalidJsonFile == [kind |-> "invalid", hasLessons |-> FALSE, lessons |-> <<>>,
                    hasVocabulary |-> FALSE, vocabulary |-> <<>>]

\* !backupData.lessons || !backupData.vocabulary is false
StructurallyValid(f) == f.kind = "json" /\ f.hasLessons /\ f.hasVocabulary

\* A hand-written lesson entry, as in the tests: custom title, old timestamp
OldLesson(n) == SnapLesson(n, <<"Custom", n>>, "desc", 1, 0)

\* The snapshot files a run may find (besides those createAutoBackup writes)
GivenBackupFiles ==
  { AbsentFile, InvalidJsonFile,
    JsonFile(FALSE, <<>>, TRUE, <<SnapVocab(0, 1, "Haus", "house")>>),
    JsonFile(TRUE, <<OldLesson(1)>>, FALSE, <<>>),
    JsonFile(TRUE, <<>>, TRUE, <<>>),
    JsonFile(TRUE, <<OldLesson(1)>>, TRUE, <<SnapVocab(0, 1, "Haus", "house")>>),
    JsonFile(TRUE, <<OldLesson(1), OldLesson(2)>>, TRUE,
             <<SnapVocab(0, 1, "Baum", "house"), SnapVocab(0, 2, "Baum", "house"),
               SnapVocab(0, 2, "Baum", "house")>>),
    JsonFile(TRUE, <<OldLesson(1)>>, TRUE,
             <<SnapVocab(0, 1, "Haus", "house"), NullVocab>>) }

\* An element of a seed file's array: a pair (a missing field is NULL) or null
SeedPair(d, e) == [isNull |-> FALSE, de |-> d, en |-> e]

NullPair == [isNull |-> TRUE, de |-> NULL, en |-> NULL]

SeedFile(k, data) == [kind |-> k, data |-> data]

AbsentSeed == SeedFile("absent", <<>>)

SeedLessons == 1 .. SeedLessonCount

\* Seed files for lesson01 and lesson02, none for the others
Seeds(c1, c2) ==
  [n \in SeedLessons |-> IF n = 1 THEN c1 ELSE IF n = 2 THEN c2 ELSE AbsentSeed]

HausSeed == SeedFile("array", <<SeedPair("Haus", "house")>>)

\* The seed directories a run may find: files that are not there, unreadable
\* (readFileSync throws), not JSON, JSON but no array, or an array
SeedConfigs ==
  { Seeds(AbsentSeed, AbsentSeed),
    Seeds(HausSeed, AbsentSeed),
    Seeds(SeedFile("array", <<SeedPair("Haus", "house"), SeedPair("Baum", "house")>>),
          HausSeed),
    Seeds(SeedFile("unparsable", <<>>),
          SeedFile("array", <<SeedPair("Haus", "house"), SeedPair("Haus", "house")>>)),
    Seeds(SeedFile("array", <<SeedPair("Baum", "house"), NullPair>>),
          SeedFile("notArray", <<>>)),
    Seeds(HausSeed, SeedFile("unreadable", <<>>)) }

ValidSeed(c) == c.kind = "array" /\ \A i \in 1 .. Len(c.data) :
                  ~c.data[i].isNull /\ c.data[i].de # NULL /\ c.data[i].en # NULL

----------------------------------------------------------------------------
(* tryRestoreFromBackup *)

Min(S) == CHOOSE x \in S : \A y \in S : x <= y

\* The statements of a restore: one per lesson entry, then one per vocabulary entry
NStmts(f) == Len(f.lessons) + Len(f.vocabulary)

\* Reading a field of a null entry throws a TypeError at that entry
NullAt(f) ==
  {i \in 1 .. Len(f.lessons) : f.lessons[i].isNull}
    \cup {Len(f.lessons) + i : i \in {j \in 1 .. Len(f.vocabulary) : f.vocabulary[j].isNull}}

\* The statement at which the restore stops (0: it runs to its end); fault is the
\* statement the store fails at (0: none)
StopAt(f, fault) ==
  LET S == NullAt(f) \cup (IF fault > 0 THEN {fault} ELSE {})
  IN IF S = {} THEN 0 ELSE Min(S)

RECURSIVE RestoreLessons(_, _, _)
\* INSERT OR REPLACE INTO lessons ... for the first n entries
RestoreLessons(les, ls, n) ==
  IF n = 0 THEN les
  ELSE LET l == ls[n]
       IN Upsert(RestoreLessons(les, ls, n - 1), l.slug,
                 LessonRow(l.title, l.description, l.entry_count, l.created_at))

RECURSIVE RestoreVocabulary(_, _, _, _)
\* INSERT OR IGNORE INTO vocabulary ... for the first n entries
RestoreVocabulary(st, uq, vs, n) ==
  IF n = 0 THEN st
  ELSE InsertOrIgnore(RestoreVocabulary(st, uq, vs, n - 1), uq,
                      <<vs[n].lesson, vs[n].de, vs[n].en>>)

\* The rows written by the statements before stop (0: all of them)
ApplySnapshot(st, uq, f, stop) ==
  LET done == IF stop = 0 THEN NStmts(f) ELSE stop - 1
      nl == IF done < Len(f.lessons) THEN done ELSE Len(f.lessons)
      nv == done - nl
      st1 == [st EXCEPT !.les = RestoreLessons(@, f.lessons, nl)]
  IN RestoreVocabulary(st1, uq, f.vocabulary, nv)

\* Mutant: the restore forgets its return true
RestoreFromBackupNoReturn(st, uq, f, fault) ==
  IF ~StructurallyValid(f) THEN [st |-> st, ret |-> FALSE, thrown |-> FALSE]
  ELSE [st |-> ApplySnapshot(st, uq, f, StopAt(f, fault)), ret |-> FALSE,
        thrown |-> FALSE]

\* Mutant: JSON.parse outside the try block, its SyntaxError leaves the function
RestoreFromBackupUncaught(st, uq, f, fault) ==
  IF f.kind = "absent" THEN [st |-> st, ret |-> FALSE, thrown |-> FALSE]
  ELSE IF f.kind = "invalid" THEN [st |-> st, ret |-> FALSE, thrown |-> TRUE]
  ELSE IF ~StructurallyValid(f) THEN [st |-> st, ret |-> FALSE, thrown |-> FALSE]
  ELSE LET stop == StopAt(f, fault)
       IN [st |-> ApplySnapshot(st, uq, f, stop), ret |-> stop = 0, thrown |-> FALSE]

\* tryRestoreFromBackup(db, root): the store afterwards and the value returned
\* (thrown: an error leaves the function; its catch block lets none out)
RestoreFromBackup(st, uq, f, fault) ==
  IF f.kind = "absent" THEN [st |-> st, ret |-> FALSE, thrown |-> FALSE]
  ELSE IF f.kind = "invalid" THEN [st |-> st, ret |-> FALSE, thrown |-> FALSE]
  ELSE IF ~StructurallyValid(f) THEN [st |-> st, ret |-> FALSE, thrown |-> FALSE]
  ELSE LET stop == StopAt(f, fault)
       IN [st |-> ApplySnapshot(st, uq, f, stop), ret |-> stop = 0, thrown |-> FALSE]

----------------------------------------------------------------------------
(* importSeedFiles *)

\* acc: [st, k, cnt, ok]: the store, the statements run so far over the whole
\* import, the lesson's importedCount, FALSE once the lesson's try block was left
RECURSIVE ImportPairs(_, _, _, _, _, _)
ImportPairs(acc, uq, n, data, i, fault) ==
  IF i > Len(data) \/ ~acc.ok THEN acc
  ELSE LET p == data[i]
       IN IF p.isNull THEN [acc EXCEPT !.ok = FALSE]
          ELSE IF acc.k + 1 = fault THEN [acc EXCEPT !.k = @ + 1, !.ok = FALSE]
          ELSE ImportPairs([acc EXCEPT !.st = InsertOrIgnore(@, uq, <<n, p.de, p.en>>),
                                       !.k = @ + 1, !.cnt = @ + 1],
                           uq, n, data, i + 1, fault)

\* One lesson of the list: its pairs, then its lessons row
ImportLesson(acc, uq, n, c, fault, now) ==
  IF c.kind # "array" THEN acc
  ELSE LET a == ImportPairs([acc EXCEPT !.cnt = 0, !.ok = TRUE], uq, n, c.data, 1, fault)
       IN IF ~a.ok THEN a
          ELSE IF a.k + 1 = fault THEN [a EXCEPT !.k = @ + 1]
          ELSE [a EXCEPT !.k = @ + 1,
                         !.st.les = Upsert(@, n, LessonRow(Title(n), NULL, a.cnt, now))]

RECURSIVE ImportLessons(_, _, _, _, _, _)
\* The loop over the lesson list; it ends at the first file whose read throws
ImportLessons(acc, uq, files, n, fault, now) ==
  IF n > SeedLessonCount \/ acc.thrown THEN acc
  ELSE IF files[n].kind = "unreadable" THEN [acc EXCEPT !.thrown = TRUE]
  ELSE ImportLessons(ImportLesson(acc, uq, n, files[n], fault, now),
                     uq, files, n + 1, fault, now)

\* importSeedFiles(db, root, DB_DIR): the store afterwards, whether the call threw,
\* and whether the prepared statement was left unfinalized
ImportSeedFiles(st, uq, files, fault, finalizeErr, now) ==
  LET a == ImportLessons([st |-> st, k |-> 0, cnt |-> 0, ok |-> TRUE, thrown |-> FALSE],
                         uq, files, 1, fault, now)
  IN [st |-> a.st, thrown |-> a.thrown \/ finalizeErr, leaked |-> a.thrown, k |-> a.k]

\* The number of statements an import of these files runs at most
RECURSIVE SeedStmts(_, _)
SeedStmts(files, n) ==
  IF n = 0 THEN 0 ELSE SeedStmts(files, n - 1) + Len(files[n].data) + 1

----------------------------------------------------------------------------
(* State *)

CurrentStore == Store(vocabulary, autoinc, lessons)

EmptyStore == Store({}, 0, NoLessons)

NoRun == [steps |-> <<>>, fault |-> FALSE, tableErr |-> FALSE, indexErr |-> FALSE,
          dedupErr |-> FALSE, hasData |-> "n/a", restored |-> "n/a", threw |-> FALSE]

NoRequest == [op |-> "none", key |-> <<0, NULL, NULL>>, keys |-> {}, id |-> 0,
              err |-> "none", status |-> 0, body |-> "", had |-> FALSE, valid |-> TRUE,
              apiKey |-> NULL, expectedKey |-> NULL, opened |-> 0, closes |-> 0]

\* No createAutoBackup() invocation has settled since the process started
NoBackup == [failure |-> "none", outcome |-> "none", failed |-> FALSE, torn |-> FALSE,
             closes |-> 0]

\* had: the key was stored before the request; valid: the uploaded document is
\* well-formed (both arrays, no null entry)
Request(op, k, ks, i, err, status, had, valid) ==
  [op |-> op, key |-> k, keys |-> ks, id |-> i, err |-> err, status |-> status,
   body |-> "", had |-> had, valid |-> valid,
   apiKey |-> NULL, expectedKey |-> NULL, opened |-> 0, closes |-> 0]

\* export const state = { currentLesson: 'lesson01', vocab: [], ... }
InitialState == [currentLesson |-> 1, vocab |-> {}]

\* The page before DOMContentLoaded: nothing is shown, nothing has been fetched
\*   fetches: bag of the lessons whose GET /api/vocab/:lesson is in flight
\*   calls: the initVocab() calls so far; failed: a fetch has been rejected
NoPage == [loaded |-> FALSE, german |-> {}, english |-> {}, fetches |-> EmptyBag,
           calls |-> 0, failed |-> FALSE]

\* A database file created by this program's schema, not yet populated
Init ==
  /\ vocabulary = {}
  /\ autoinc = 0
  /\ lessons = NoLessons
  /\ uniqueKey = TRUE
  /\ backupFile \in GivenBackupFiles
  /\ seedFiles \in SeedConfigs
  /\ pc = "stopped"
  /\ handle = "none"
  /\ openStmts = 0
  /\ outcome = "none"
  /\ run = NoRun
  /\ pre = EmptyStore
  /\ epoch = 0
  /\ requests = MaxOps
  /\ clients = "paced"
  /\ backupDir = "default"
  /\ overrideFile = AbsentFile
  /\ creating = EmptyBag
  /\ backups = EmptyBag
  /\ lastBackup = NoBackup
  /\ last = NoRequest
  /\ state = InitialState
  /\ page = NoPage

\* The keys of lesson01
Lesson1Keys == {<<1, d, e>> : d \in De, e \in En}

\* Tables written before the UNIQUE constraint existed: any rows with distinct ids
LegacyTables ==
  { {Row(i, f[i]) : i \in DOMAIN f} :
      f \in UNION {[S -> Lesson1Keys] : S \in SUBSET (1 .. MaxId)} }

MaxOf(S) == IF S = {} THEN 0 ELSE CHOOSE x \in S : \A y \in S : y <= x

\* A database file whose vocabulary table predates the UNIQUE constraint
\* (CREATE TABLE IF NOT EXISTS leaves such a table as it is)
InitLegacy ==
  /\ vocabulary \in LegacyTables
  /\ autoinc = MaxOf(Ids(vocabulary))
  /\ lessons = NoLessons
  /\ uniqueKey = FALSE
  /\ backupFile \in {AbsentFile,
                     JsonFile(TRUE, <<OldLesson(1)>>, TRUE,
                              <<SnapVocab(0, 1, "Haus", "house")>>)}
  /\ seedFiles \in {Seeds(AbsentSeed, AbsentSeed), Seeds(HausSeed, AbsentSeed)}
  /\ pc = "stopped"
  /\ handle = "none"
  /\ openStmts = 0
  /\ outcome = "none"
  /\ run = NoRun
  /\ pre = EmptyStore
  /\ epoch = 0
  /\ requests = MaxOps
  /\ clients = "paced"
  /\ backupDir = "default"
  /\ overrideFile = AbsentFile
  /\ creating = EmptyBag
  /\ backups = EmptyBag
  /\ lastBackup = NoBackup
  /\ last = NoRequest
  /\ state = InitialState
  /\ page = NoPage

\* A new database file, no snapshot yet, AUTO_BACKUP_DIR set or not, and clients
\* that send MaxBurst requests
InitApi ==
  /\ vocabulary = {}
  /\ autoinc = 0
  /\ lessons = NoLessons
  /\ uniqueKey = TRUE
  /\ backupFile = AbsentFile
  /\ seedFiles \in {Seeds(AbsentSeed, AbsentSeed), Seeds(HausSeed, AbsentSeed)}
  /\ pc = "stopped"
  /\ handle = "none"
  /\ openStmts = 0
  /\ outcome = "none"
  /\ run = NoRun
  /\ pre = EmptyStore
  /\ epoch = 0
  /\ requests = MaxBurst
  /\ clients = "burst"
  /\ backupDir \in {"default", "override"}
  /\ overrideFile = AbsentFile
  /\ creating = EmptyBag
  /\ backups = EmptyBag
  /\ lastBackup = NoBackup
  /\ last = NoRequest
  /\ state = InitialState
  /\ page = NoPage

storeVars == <<vocabulary, autoinc, lessons>>
browserVars == <<state, page>>
fileVars == <<backupFile, seedFiles, backupDir, overrideFile, clients, browserVars>>
apiVars == <<requests, creating, backups, lastBackup, last>>

SetStore(st) ==
  /\ vocabulary' = st.voc
  /\ autoinc' = st.ai
  /\ lessons' = st.les

Step(name) == [run EXCEPT !.steps = Append(@, name)]

----------------------------------------------------------------------------
(* ensureDbInitialized, one action per awaited step *)

\* start(): the process starts and ensureDbInitialized opens its handle
StartInit ==
  /\ pc \in {"stopped", "serving"}
  /\ epoch < MaxRuns
  /\ epoch' = epoch + 1
  /\ pc' = "createTables"
  /\ handle' = "open"
  /\ openStmts' = 0
  /\ outcome' = "pending"
  /\ run' = NoRun
  /\ pre' = CurrentStore
  /\ creating' = EmptyBag
  /\ backups' = EmptyBag
  /\ lastBackup' = NoBackup
  /\ last' = NoRequest
  /\ UNCHANGED <<storeVars, uniqueKey, fileVars, requests>>

\* Mutant: the error of CREATE TABLE lessons is logged like the index's
CreateTablesLessonsLogged ==
  /\ pc = "createTables"
  /\ \E errVocabulary, errIndex, errLessons, errUsers, errDedup \in BOOLEAN :
       LET rejected == errVocabulary \/ errUsers
       IN /\ vocabulary' = IF errDedup THEN vocabulary ELSE RemoveDuplicates(vocabulary)
          /\ run' = [Step("createTables") EXCEPT
                       !.tableErr = errVocabulary \/ errLessons \/ errUsers,
                       !.indexErr = errIndex, !.dedupErr = errDedup,
                       !.fault = rejected \/ errLessons \/ errIndex \/ errDedup,
                       !.threw = rejected]
          /\ outcome' = IF rejected THEN "error" ELSE outcome
          /\ pc' = IF rejected THEN "finally" ELSE "checkIfHasData"
  /\ UNCHANGED <<autoinc, lessons, uniqueKey, fileVars, handle, openStmts, pre, epoch,
                 apiVars>>

\* await createTables(db): the three tables, the index and the dedup pass run in
\* order; a table's error rejects, the index's and the dedup's are logged
CreateTables ==
  /\ pc = "createTables"
  /\ \E errVocabulary, errIndex, errLessons, errUsers, errDedup \in BOOLEAN :
       LET rejected == errVocabulary \/ errLessons \/ errUsers
       IN /\ vocabulary' = IF errDedup THEN vocabulary ELSE RemoveDuplicates(vocabulary)
          /\ run' = [Step("createTables") EXCEPT
                       !.tableErr = rejected, !.indexErr = errIndex,
                       !.dedupErr = errDedup,
                       !.fault = rejected \/ errIndex \/ errDedup,
                       !.threw = rejected]
          /\ outcome' = IF rejected THEN "error" ELSE outcome
          /\ pc' = IF rejected THEN "finally" ELSE "checkIfHasData"
  /\ UNCHANGED <<autoinc, lessons, uniqueKey, fileVars, handle, openStmts, pre, epoch,
                 apiVars>>

\* Mutant: the early return on hasData is missing
CheckIfHasDataNoReturn ==
  /\ pc = "checkIfHasData"
  /\ \E err \in BOOLEAN :
       LET hasData == Cardinality(vocabulary) > 0
       IN /\ run' = [Step("checkIfHasData") EXCEPT
                       !.fault = @ \/ err, !.threw = err,
                       !.hasData = IF err THEN "n/a"
                                   ELSE IF hasData THEN "true" ELSE "false"]
          /\ outcome' = IF err THEN "error" ELSE outcome
          /\ pc' = IF err THEN "finally" ELSE "tryRestoreFromBackup"
  /\ UNCHANGED <<storeVars, uniqueKey, fileVars, handle, openStmts, pre, epoch, apiVars>>

\* const hasData = await checkIfHasData(db); if (hasData) return
CheckIfHasData ==
  /\ pc = "checkIfHasData"
  /\ \E err \in BOOLEAN :
       LET hasData == Cardinality(vocabulary) > 0
       IN /\ run' = [Step("checkIfHasData") EXCEPT
                       !.fault = @ \/ err, !.threw = err,
                       !.hasData = IF err THEN "n/a"
                                   ELSE IF hasData THEN "true" ELSE "false"]
          /\ outcome' = IF err THEN "error" ELSE IF hasData THEN "populated" ELSE outcome
          /\ pc' = IF err \/ hasData THEN "finally" ELSE "tryRestoreFromBackup"
  /\ UNCHANGED <<storeVars, uniqueKey, fileVars, handle, openStmts, pre, epoch, apiVars>>

\* const backupRestored = await tryRestoreFromBackup(db, root); if (...) return
TryRestoreFromBackup ==
  /\ pc = "tryRestoreFromBackup"
  /\ \E fault \in 0 .. NStmts(backupFile) :
       LET r == RestoreFromBackup(CurrentStore, uniqueKey, backupFile, fault)
       IN /\ fault > 0 => StructurallyValid(backupFile)
          /\ r.st.ai <= MaxId
          /\ SetStore(r.st)
          /\ run' = [Step("tryRestoreFromBackup") EXCEPT
                       !.fault = @ \/ (fault > 0 /\ fault = StopAt(backupFile, fault)),
                       !.threw = r.thrown,
                       !.restored = IF r.thrown THEN "n/a"
                                    ELSE IF r.ret THEN "true" ELSE "false"]
          /\ outcome' = IF r.thrown THEN "error"
                        ELSE IF r.ret THEN "restored" ELSE outcome
          /\ pc' = IF r.thrown \/ r.ret THEN "finally" ELSE "importSeedFiles"
  /\ UNCHANGED <<uniqueKey, fileVars, handle, openStmts, pre, epoch, apiVars>>

\* await importSeedFiles(db, root, DB_DIR)
ImportSeeds ==
  /\ pc = "importSeedFiles"
  /\ \E fault \in 0 .. SeedStmts(seedFiles, SeedLessonCount), finalizeErr \in BOOLEAN :
       LET r == ImportSeedFiles(CurrentStore, uniqueKey, seedFiles, fault,
                                finalizeErr, epoch)
       IN /\ r.st.ai <= MaxId
          /\ fault <= r.k
          /\ finalizeErr => ~r.leaked
          /\ SetStore(r.st)
          /\ openStmts' = IF r.leaked THEN 1 ELSE 0
          /\ run' = [Step("importSeedFiles") EXCEPT
                       !.fault = @ \/ fault > 0 \/ finalizeErr \/ r.leaked,
                       !.threw = r.thrown]
          /\ outcome' = IF r.thrown THEN "error" ELSE "seeded"
          /\ pc' = "finally"
  /\ UNCHANGED <<uniqueKey, fileVars, handle, pre, epoch, apiVars>>

\* safeCloseSqlite(db): close() fails while a statement of the handle is not
\* finalized; the failure is logged and the promise resolves all the same
SafeCloseSqlite(h, stmts) == IF h = "open" /\ stmts = 0 THEN "closed" ELSE h

\* Mutant: start() listens whatever ensureDbInitialized did
FinallyThenListen ==
  /\ pc = "finally"
  /\ handle' = SafeCloseSqlite(handle, openStmts)
  /\ run' = Step("finally")
  /\ pc' = "serving"
  /\ UNCHANGED <<storeVars, uniqueKey, fileVars, openStmts, outcome, pre, epoch, apiVars>>

\* finally { await safeCloseSqlite(db) }, then the return or the throw reaches
\* start(), which listens or exits
Finally ==
  /\ pc = "finally"
  /\ handle' = SafeCloseSqlite(handle, openStmts)
  /\ run' = Step("finally")
  /\ pc' = IF outcome = "error" THEN "stopped" ELSE "serving"
  /\ UNCHANGED <<storeVars, uniqueKey, fileVars, openStmts, outcome, pre, epoch, apiVars>>

----------------------------------------------------------------------------
(* createAutoBackup *)

RECURSIVE LessonsBySlug(_, _)
\* SELECT * FROM lessons ORDER BY slug
LessonsBySlug(les, slugs) ==
  IF slugs = {} THEN <<>>
  ELSE LET n == Min(slugs)
       IN <<SnapLesson(n, les[n].title, les[n].description, les[n].entry_count,
                       les[n].created_at)>>
          \o LessonsBySlug(les, slugs \ {n})

\* ORDER BY lesson, id
Before(r, q) == r.lesson < q.lesson \/ (r.lesson = q.lesson /\ r.id <= q.id)

RECURSIVE VocabularyByLessonId(_)
\* SELECT * FROM vocabulary ORDER BY lesson, id
VocabularyByLessonId(voc) ==
  IF voc = {} THEN <<>>
  ELSE LET r == CHOOSE x \in voc : \A y \in voc : Before(x, y)
       IN <<SnapVocab(r.id, r.lesson, r.de, r.en)>> \o VocabularyByLessonId(voc \ {r})

\* The document createAutoBackup writes: backupData
Snapshot(st) ==
  JsonFile(TRUE, LessonsBySlug(st.les, DOMAIN st.les), TRUE, VocabularyByLessonId(st.voc))

\* An invocation in flight: how far it has come and the rows it has read
\*   instants: the contents the store has had since the lessons were read
\*   torn: the rows read are the content of the store at none of them
Invocation(stage, ls, vs) ==
  [stage |-> stage, lessons |-> ls, vocabulary |-> vs, instants |-> {}, torn |-> FALSE]

\* The content of the store as the two SELECTs of createAutoBackup would return it
Instant(st) == <<LessonsBySlug(st.les, DOMAIN st.les), VocabularyByLessonId(st.voc)>>

RECURSIVE CopiesOf(_, _)
CopiesOf(S, bs) ==
  IF S = {} THEN 0
  ELSE LET b == CHOOSE x \in S : TRUE
       IN CopiesIn(b, bs) + CopiesOf(S \ {b}, bs)

\* A statement of another handle commits store st: the invocations that have read
\* the lessons and not yet the vocabulary run beside it
Observe(bs, st) ==
  LET seen(b) == IF b.stage = "lessons" THEN [b EXCEPT !.instants = @ \cup {Instant(st)}]
                 ELSE b
      S == {seen(b) : b \in BagToSet(bs)}
  IN IF bs = EmptyBag THEN bs
     ELSE [x \in S |-> CopiesOf({b \in BagToSet(bs) : seen(b) = x}, bs)]

\* createAutoBackup(): the call opens its handle and returns its promise at the first
\* await, before it has read a row
createAutoBackup(bs) == bs (+) SetToBag({Invocation("started", <<>>, <<>>)})

Settle(bs, b) == bs (-) SetToBag({b})

Advance(bs, b, c) == (bs (-) SetToBag({b})) (+) SetToBag({c})

\* The invocation has settled, with the failure it met
\*   closes: the db.close() calls of the invocation, one in the try block or one
\*   in the catch block, both when the write fails
Settled(failure, how) ==
  [failure |-> failure, outcome |-> how,
   failed |-> lastBackup.failed \/ failure # "none", torn |-> FALSE,
   closes |-> IF failure = "write" THEN 2 ELSE 1]

\* The file the invocations write: backupDir/auto-backup.json
WrittenFile == IF backupDir = "default" THEN backupFile ELSE overrideFile

WriteFile(doc) ==
  IF backupDir = "default"
  THEN backupFile' = doc /\ UNCHANGED overrideFile
  ELSE overrideFile' = doc /\ UNCHANGED backupFile

backupVars == <<storeVars, uniqueKey, seedFiles, backupDir, clients, pc, handle, openStmts,
                outcome, run, pre, epoch, requests, creating, last, browserVars>>

\* await fs.mkdir(backupDir), then SELECT * FROM lessons ORDER BY slug; an error of
\* either is caught: the catch block closes the handle and logs
AutoBackupLessons ==
  /\ pc = "serving"
  /\ \E b \in BagToSet(backups), err \in {"none", "mkdir", "read"} :
       /\ b.stage = "started"
       /\ IF err = "none"
          THEN /\ backups' = Advance(backups, b,
                               [Invocation("lessons",
                                           LessonsBySlug(lessons, DOMAIN lessons), <<>>)
                                  EXCEPT !.instants = {Instant(CurrentStore)}])
               /\ UNCHANGED lastBackup
          ELSE /\ backups' = Settle(backups, b)
               /\ lastBackup' = Settled(err, "swallowed")
  /\ UNCHANGED <<backupVars, backupFile, overrideFile>>

\* SELECT * FROM vocabulary ORDER BY lesson, id, then db.close()
AutoBackupVocabulary ==
  /\ pc = "serving"
  /\ \E b \in BagToSet(backups), err \in {"none", "read"} :
       /\ b.stage = "lessons"
       /\ IF err = "none"
          THEN /\ backups' = Advance(backups, b,
                               [Invocation("read", b.lessons,
                                           VocabularyByLessonId(vocabulary))
                                  EXCEPT !.torn =
                                    <<b.lessons, VocabularyByLessonId(vocabulary)>>
                                      \notin b.instants])
               /\ UNCHANGED lastBackup
          ELSE /\ backups' = Settle(backups, b)
               /\ lastBackup' = Settled(err, "swallowed")
  /\ UNCHANGED <<backupVars, backupFile, overrideFile>>

\* await fs.writeFile(backupPath, JSON.stringify(backupData)): the file is replaced; a
\* write that fails at open leaves it as it was, one that fails later leaves a
\* truncated document. The catch block then calls db.close() on the handle the try
\* block has closed before (closed: that close has completed by then): the handle
\* reports SQLITE_MISUSE (Database is closed), no callback and no listener takes
\* it, and the error leaves createAutoBackup
AutoBackupWrite ==
  /\ pc = "serving"
  /\ \E b \in BagToSet(backups), err \in {"none", "open", "write"}, closed \in BOOLEAN :
       /\ b.stage = "read"
       /\ err = "none" => closed
       /\ backups' = Settle(backups, b)
       /\ IF err = "none"
          THEN /\ WriteFile(JsonFile(TRUE, b.lessons, TRUE, b.vocabulary))
               /\ lastBackup' = [Settled("none", "written") EXCEPT !.torn = b.torn]
          ELSE /\ IF err = "open" THEN UNCHANGED <<backupFile, overrideFile>>
                  ELSE WriteFile(InvalidJsonFile)
               /\ lastBackup' = Settled("write", IF closed THEN "raised" ELSE "swallowed")
  /\ UNCHANGED backupVars

----------------------------------------------------------------------------
(* The API requests *)

\* The server listens and a client sends a request
Serving ==
  /\ pc = "serving"
  /\ requests > BagCardinality(creating)
  /\ clients = "paced" => (backups = EmptyBag /\ creating = EmptyBag)

initVars == <<pc, handle, openStmts, outcome, epoch>>

\* run and pre describe the ensureDbInitialized run in progress or just returned,
\* lastBackup the invocations settled since the last request: they are dropped when
\* a request is served
Served ==
  /\ requests' = requests - 1
  /\ lastBackup' = NoBackup
  /\ run' = NoRun
  /\ pre' = EmptyStore

\* The failure of a statement that is no constraint violation (I/O error, locked file)
StoreFailure == "SQLITE_ERROR"

\* DatabaseService.addVocab(lesson, de, en)
addVocab(st, uq, n, d, e) == PlainInsert(st, uq, <<n, d, e>>)

\* DatabaseService.updateVocab(id, de, en)
updateVocab(st, uq, i, d, e) == UpdateRow(st, uq, i, d, e)

\* DatabaseService.deleteVocab(id)
deleteVocab(st, i) == DeleteRow(st, i)

\* The texts a client sends as de: the words, the empty text and a long one
DeInputs == De \cup {"", LongText}

\* The response of POST /api/vocab/:lesson
\*   valid: de and en are non-empty after trim; err: the error addVocab rejected with
PostVocabResponse(valid, err) ==
  IF ~valid THEN [status |-> 400, body |-> "de und en duerfen nicht leer sein"]
  ELSE IF err # "none" THEN [status |-> 500, body |-> "Konnte Vokabel nicht speichern"]
  ELSE [status |-> 200, body |-> "success"]

\* POST /api/vocab/:lesson
PostVocab ==
  /\ Serving
  /\ \E n \in LessonIds, d \in DeInputs, e \in En, fault \in BOOLEAN :
       LET valid == d # "" /\ ~TooLong(d)
           r == IF ~valid THEN [st |-> CurrentStore, err |-> "none", id |-> 0]
                ELSE IF fault THEN [st |-> CurrentStore, err |-> StoreFailure, id |-> 0]
                ELSE addVocab(CurrentStore, uniqueKey, n, d, e)
           resp == IF d # "" /\ TooLong(d)
                   THEN [status |-> 400,
                         body |-> "Vokabeln duerfen maximal 60 Zeichen lang sein"]
                   ELSE PostVocabResponse(valid, r.err)
       IN /\ fault => valid
          /\ r.st.ai <= MaxId
          /\ SetStore(r.st)
          /\ backups' = Observe(IF resp.status = 200 THEN createAutoBackup(backups)
                                 ELSE backups, r.st)
          /\ last' = [Request("addVocab", <<n, d, e>>, {<<n, d, e>>}, r.id, r.err,
                              resp.status, <<n, d, e>> \in Keys(vocabulary), valid)
                        EXCEPT !.body = resp.body]
  /\ Served
  /\ UNCHANGED <<uniqueKey, fileVars, initVars, creating>>

\* The X-API-Key header of a request and the ADMIN_API_KEY of the environment when
\* the request arrives (NULL: header not sent, variable not set)
Credentials ==
  { <<"secret", "secret">>, <<NULL, "secret">>, <<"wrong", "secret">>, <<NULL, NULL>>,
    <<"secret", NULL>> }

\* Mutant: the keys are compared, a missing secret is not looked at
requireApiKeyLoose(apiKey, expectedKey) == apiKey = expectedKey

\* requireApiKey: TRUE when next() is called, FALSE when 401 is answered
requireApiKey(apiKey, expectedKey) ==
  ~(expectedKey \in {NULL, ""} \/ apiKey # expectedKey)

\* The request as the middleware saw it
WithKey(req, cred) == [req EXCEPT !.apiKey = cred[1], !.expectedKey = cred[2]]

\* res.status(401).json({ error: 'Unautorisiert - Ungueltiger API-Key' }); return
Unauthorized(op, cred) ==
  /\ UNCHANGED <<storeVars, backups>>
  /\ last' = WithKey(Request(op, <<0, NULL, NULL>>, {}, 0, "none", 401, FALSE, TRUE), cred)

\* The handles a route handler opened for itself and its db.close() calls
WithHandle(req, closes) == [req EXCEPT !.opened = 1, !.closes = closes]

\* Mutant: the backup is started before the result of the update is looked at
PutVocabBackupFirst ==
  /\ Serving
  /\ \E cred \in Credentials :
     IF ~requireApiKey(cred[1], cred[2]) THEN Unauthorized("updateVocab", cred)
     ELSE
     \E i \in 1 .. MaxId, d \in DeInputs, e \in En :
       LET valid == d # "" /\ ~TooLong(d)
           r == IF valid THEN updateVocab(CurrentStore, uniqueKey, i, d, e)
                ELSE [st |-> CurrentStore, err |-> "none", changes |-> 0]
           status == IF ~valid THEN 400 ELSE IF r.err # "none" THEN 500
                     ELSE IF r.changes = 0 THEN 404 ELSE 200
           k == IF i \in Ids(vocabulary)
                THEN <<(CHOOSE x \in vocabulary : x.id = i).lesson, d, e>>
                ELSE <<0, d, e>>
       IN /\ SetStore(r.st)
          /\ backups' = Observe(IF valid /\ r.err = "none" THEN createAutoBackup(backups)
                                 ELSE backups, r.st)
          /\ last' = WithKey(Request("updateVocab", k, {k}, i, r.err, status,
                                     k \in Keys({x \in vocabulary : x.id # i}), valid),
                             cred)
  /\ Served
  /\ UNCHANGED <<uniqueKey, fileVars, initVars, creating>>

\* PUT /api/admin/vocab/:id
PutVocab ==
  /\ Serving
  /\ \E cred \in Credentials :
     IF ~requireApiKey(cred[1], cred[2]) THEN Unauthorized("updateVocab", cred)
     ELSE
     \E i \in 1 .. MaxId, d \in DeInputs, e \in En :
       LET valid == d # "" /\ ~TooLong(d)
           r == IF valid THEN updateVocab(CurrentStore, uniqueKey, i, d, e)
                ELSE [st |-> CurrentStore, err |-> "none", changes |-> 0]
           status == IF ~valid THEN 400 ELSE IF r.err # "none" THEN 500
                     ELSE IF r.changes = 0 THEN 404 ELSE 200
           k == IF i \in Ids(vocabulary)
                THEN <<(CHOOSE x \in vocabulary : x.id = i).lesson, d, e>>
                ELSE <<0, d, e>>
       IN /\ SetStore(r.st)
          /\ backups' = Observe(IF status = 200 THEN createAutoBackup(backups)
                                 ELSE backups, r.st)
          /\ last' = WithKey(Request("updateVocab", k, {k}, i, r.err, status,
                                     k \in Keys({x \in vocabulary : x.id # i}), valid),
                             cred)
  /\ Served
  /\ UNCHANGED <<uniqueKey, fileVars, initVars, creating>>

\* DELETE /api/admin/vocab/:id (id 0: 'Ungueltige ID')
DeleteVocab ==
  /\ Serving
  /\ \E cred \in Credentials :
     IF ~requireApiKey(cred[1], cred[2]) THEN Unauthorized("deleteVocab", cred)
     ELSE
     \E i \in 0 .. MaxId :
       LET valid == i > 0
           r == deleteVocab(CurrentStore, i)
           status == IF ~valid THEN 400 ELSE IF r.changes = 0 THEN 404 ELSE 200
       IN /\ SetStore(r.st)
          /\ backups' = Observe(IF status = 200 THEN createAutoBackup(backups)
                                 ELSE backups, r.st)
          /\ last' = WithKey(Request("deleteVocab", <<0, NULL, NULL>>, {}, i, "none",
                                     status, FALSE, valid), cred)
  /\ Served
  /\ UNCHANGED <<uniqueKey, fileVars, initVars, creating>>

\* The uploads of POST /api/lessons: the pairs of the file or the body
Uploads ==
  { <<>>, <<SeedPair("Haus", "house")>>,
    <<SeedPair("Haus", "house"), SeedPair("Haus", "house")>>,
    <<SeedPair(LongText, "house")>> }

\* vocabPairs.filter(...): the pairs with non-empty texts of at most 60 characters
validPairs(pairs) ==
  SelectSeq(pairs, LAMBDA p : /\ ~p.isNull
                              /\ p.de \notin {NULL, ""}
                              /\ p.en \notin {NULL, ""}
                              /\ ~TooLong(p.de)
                              /\ ~TooLong(p.en))

\* Math.max(...lessonNumbers) + 1, or 1 when there is no lesson
NextNumber(les) ==
  IF DOMAIN les = {} THEN 1
  ELSE (CHOOSE n \in DOMAIN les : \A m \in DOMAIN les : m <= n) + 1

RECURSIVE InsertPairs(_, _, _, _, _)
\* stmt.run(newSlug, pair.de, pair.en) for the first i valid pairs
InsertPairs(st, uq, n, pairs, i) ==
  IF i = 0 THEN st
  ELSE InsertOrIgnore(InsertPairs(st, uq, n, pairs, i - 1), uq,
                      <<n, pairs[i].de, pairs[i].en>>)

\* INSERT INTO lessons ... ON CONFLICT(slug) DO UPDATE SET entry_count = ?, title = ?
UpsertCount(les, n, c, now) ==
  IF n \in DOMAIN les
  THEN [les EXCEPT ![n].entry_count = c, ![n].title = Title(n)]
  ELSE Upsert(les, n, LessonRow(Title(n), NULL, c, now))

\* Mutant: entry_count is the number of valid pairs of the upload
CreateLessonCountsPairs(st, uq, n, pairs, now) ==
  LET st1 == InsertPairs(st, uq, n, pairs, Len(pairs))
  IN [st1 EXCEPT !.les = UpsertCount(@, n, Len(pairs), now)]

\* POST /api/lessons from the INSERTs on: the pairs, the count, the lessons row
CreateLesson(st, uq, n, pairs, now) ==
  LET st1 == InsertPairs(st, uq, n, pairs, Len(pairs))
      entryCount == Cardinality({r \in st1.voc : r.lesson = n})
  IN [st1 EXCEPT !.les = UpsertCount(@, n, entryCount, now)]

\* The triples a request for slug n inserts
PairKeys(n, pairs) == {<<n, pairs[i].de, pairs[i].en>> : i \in 1 .. Len(pairs)}

\* A POST /api/lessons request that has computed newSlug and filtered its pairs
Creation(n, pairs) == [slug |-> n, pairs |-> pairs]

\* POST /api/lessons up to the first await: SELECT slug FROM lessons, nextNumber,
\* the limit, the valid pairs (fault: the SELECT fails, the catch block answers
\* 500). Other requests run before the handler goes on
PostLessons ==
  /\ Serving
  /\ \E vocabPairs \in Uploads, fault \in BOOLEAN :
       LET n == NextNumber(lessons)
           pairs == validPairs(vocabPairs)
       IN /\ fault => vocabPairs = <<>>
          /\ IF fault \/ n > LessonLimit
             THEN /\ last' = WithHandle(
                               Request("createLesson",
                                       <<IF fault THEN 0 ELSE n, NULL, NULL>>,
                                       PairKeys(IF fault THEN 0 ELSE n, pairs), 0,
                                       IF fault THEN StoreFailure ELSE "none",
                                       IF fault THEN 500 ELSE 400, FALSE, TRUE), 1)
                  /\ Served
                  /\ UNCHANGED creating
             ELSE /\ creating' = creating (+) SetToBag({Creation(n, pairs)})
                  /\ UNCHANGED <<requests, lastBackup, run, pre, last>>
  /\ UNCHANGED <<storeVars, uniqueKey, fileVars, initVars, backups>>

\* POST /api/lessons after the read: INSERT OR IGNORE of the pairs under newSlug,
\* SELECT COUNT(*), the upsert of the lessons row, db.close() and the response;
\* the route calls no createAutoBackup
PostLessonsWrite ==
  /\ pc = "serving"
  /\ \E c \in BagToSet(creating) :
       LET st == CreateLesson(CurrentStore, uniqueKey, c.slug, c.pairs, epoch)
       IN /\ st.ai <= MaxId
          /\ SetStore(st)
          /\ backups' = Observe(backups, st)
          /\ creating' = creating (-) SetToBag({c})
          /\ last' = WithHandle(
                        Request("createLesson", <<c.slug, NULL, NULL>>,
                                PairKeys(c.slug, c.pairs), 0, "none", 200, FALSE, TRUE),
                        1)
  /\ Served
  /\ UNCHANGED <<uniqueKey, fileVars, initVars>>

\* The valid triples of a snapshot's vocabulary array
SnapshotKeys(f) ==
  { <<f.vocabulary[i].lesson, f.vocabulary[i].de, f.vocabulary[i].en>> :
      i \in {j \in 1 .. Len(f.vocabulary) : ~f.vocabulary[j].isNull} }

\* POST /api/admin/import with an uploaded file (absent: no file was uploaded)
ImportBackup(st, uq, f, fault) ==
  IF f.kind = "absent" THEN [st |-> st, status |-> 400]
  ELSE IF f.kind = "invalid" THEN [st |-> st, status |-> 500]
  ELSE IF ~StructurallyValid(f) THEN [st |-> st, status |-> 400]
  ELSE LET stop == StopAt(f, fault)
       IN [st |-> ApplySnapshot(st, uq, f, stop),
           status |-> IF stop = 0 THEN 200 ELSE 500]

\* The files uploaded to POST /api/admin/import
ImportFiles ==
  { AbsentFile, InvalidJsonFile,
    JsonFile(TRUE, <<OldLesson(1)>>, FALSE, <<>>),
    JsonFile(TRUE, <<OldLesson(1)>>, TRUE, <<SnapVocab(0, 1, "Haus", "house")>>),
    JsonFile(TRUE, <<OldLesson(2)>>, TRUE,
             <<SnapVocab(0, 2, "Baum", "house"), NullVocab>>),
    JsonFile(TRUE, <<OldLesson(1), OldLesson(2), OldLesson(3)>>, TRUE, <<>>),
    JsonFile(TRUE, <<OldLesson(LessonLimit)>>, TRUE, <<>>),
    JsonFile(TRUE, <<OldLesson(1)>>, TRUE, <<SnapVocab(0, 1, LongText, "house")>>) }

\* The db.close() calls of POST /api/admin/import: the rejection of a request
\* without a file returns before any of them
ImportCloses(f) == IF f.kind = "absent" THEN 0 ELSE 1

\* POST /api/admin/import
PostImport ==
  /\ Serving
  /\ \E cred \in Credentials :
     IF ~requireApiKey(cred[1], cred[2]) THEN Unauthorized("import", cred)
     ELSE
     \E f \in ImportFiles :
       LET r == ImportBackup(CurrentStore, uniqueKey, f, 0)
       IN /\ r.st.ai <= MaxId
          /\ SetStore(r.st)
          /\ backups' = Observe(IF r.status = 200 THEN createAutoBackup(backups)
                                 ELSE backups, r.st)
          /\ last' = WithKey(WithHandle(
                        Request("import", <<0, NULL, NULL>>, SnapshotKeys(f), 0,
                                IF r.status = 500 THEN "error" ELSE "none", r.status,
                                SnapshotKeys(f) \cap Keys(vocabulary) # {},
                                StructurallyValid(f) /\ NullAt(f) = {}),
                        ImportCloses(f)), cred)
  /\ Served
  /\ UNCHANGED <<uniqueKey, fileVars, initVars, creating>>

\* GET /api/admin/export (fault: a SELECT fails, the catch block closes the handle
\* and answers 500); the store is only read
GetExport ==
  /\ Serving
  /\ \E cred \in Credentials :
     IF ~requireApiKey(cred[1], cred[2]) THEN Unauthorized("export", cred)
     ELSE
     \E fault \in BOOLEAN :
       /\ UNCHANGED <<storeVars, backups>>
       /\ last' = WithKey(WithHandle(
                     Request("export", <<0, NULL, NULL>>, Keys(vocabulary), 0,
                             IF fault THEN StoreFailure ELSE "none",
                             IF fault THEN 500 ELSE 200, FALSE, TRUE), 1), cred)
  /\ Served
  /\ UNCHANGED <<uniqueKey, fileVars, initVars, creating>>

----------------------------------------------------------------------------
(* The environment *)

\* The database file is lost (ephemeral storage) and the process with it; the next
\* start creates it anew. The snapshot and the seed files stay.
RecreateStore ==
  /\ pc \in {"stopped", "serving"}
  /\ epoch > 0
  /\ epoch < MaxRuns
  /\ vocabulary # {} \/ DOMAIN lessons # {}
  /\ SetStore(EmptyStore)
  /\ uniqueKey' = TRUE
  /\ pc' = "stopped"
  /\ run' = NoRun
  /\ pre' = EmptyStore
  /\ creating' = EmptyBag
  /\ backups' = EmptyBag
  /\ lastBackup' = NoBackup
  /\ last' = [NoRequest EXCEPT !.op = "recreated"]
  /\ UNCHANGED <<fileVars, handle, openStmts, outcome, epoch, requests>>

----------------------------------------------------------------------------
(* Specifications *)

Next ==
  \/ StartInit
  \/ CreateTables
  \/ CheckIfHasData
  \/ TryRestoreFromBackup
  \/ ImportSeeds
  \/ Finally
  \/ PostVocab
  \/ PutVocab
  \/ DeleteVocab
  \/ PostLessons
  \/ PostLessonsWrite
  \/ PostImport
  \/ GetExport
  \/ AutoBackupLessons
  \/ AutoBackupVocabulary
  \/ AutoBackupWrite
  \/ RecreateStore

Spec == Init /\ [][Next]_vars

SpecLegacy == InitLegacy /\ [][Next]_vars

SpecApi == InitApi /\ [][Next]_vars

----------------------------------------------------------------------------
(* Properties *)

Unique(voc) == \A r, q \in voc : Key(r) = Key(q) => r = q

\* The run of ensureDbInitialized is in progress or has returned, and no request
\* was served since
InRun == epoch > 0 /\ last.op = "none"

RunReturned == InRun /\ pc \in {"stopped", "serving"}

Ran(step) == \E i \in 1 .. Len(run.steps) : run.steps[i] = step

OneRow(k) == Cardinality(RowsWithKey(vocabulary, k)) = 1

\* The valid triples of the array seed files
SeedKeys(files, valid) ==
  UNION { { <<n, files[n].data[i].de, files[n].data[i].en>> :
              i \in {j \in 1 .. Len(files[n].data) : ~files[n].data[j].isNull} } :
          n \in {m \in SeedLessons : files[m].kind = "array"
                                     /\ (valid => ValidSeed(files[m]))} }

\* The lessons rows a snapshot describes: per slug, its last entry
MatchesSnapshotLessons(les, f) ==
  /\ DOMAIN les = {f.lessons[i].slug : i \in 1 .. Len(f.lessons)}
  /\ \A i \in 1 .. Len(f.lessons) :
       (\A j \in (i + 1) .. Len(f.lessons) : f.lessons[j].slug # f.lessons[i].slug)
         => les[f.lessons[i].slug] =
              [title |-> f.lessons[i].title, description |-> f.lessons[i].description,
               entry_count |-> f.lessons[i].entry_count,
               created_at |-> f.lessons[i].created_at]

\* C1: in a store created by createTables, no two vocabulary rows share the same
\* (lesson, de, en) triple, whatever inserts, updates, deletes, lesson creations,
\* imports, restores and seed imports have run.
C1_UniqueTriples == Unique(vocabulary)

\* C1 witness: an update that would have produced a second row with a stored triple
\* was made and refused
C1_Witness ==
  /\ last.op = "updateVocab"
  /\ last.had
  /\ last.err = "SQLITE_CONSTRAINT"
  /\ Cardinality(vocabulary) >= 2

C3_RestorePrecedence ==
  (RunReturned /\ pre.voc = {} /\ DOMAIN pre.les = {}
     /\ StructurallyValid(backupFile) /\ NullAt(backupFile) = {} /\ ~run.fault) =>
    /\ outcome = "restored"
    /\ ~Ran("importSeedFiles")
    /\ Keys(vocabulary) = SnapshotKeys(backupFile)
    /\ MatchesSnapshotLessons(lessons, backupFile)

\* C3 witness: a run that restored a non-empty snapshot while a valid seed file
\* holding a triple the snapshot lacks was there
C3_Witness ==
  /\ RunReturned /\ pre.voc = {} /\ DOMAIN pre.les = {}
  /\ StructurallyValid(backupFile) /\ NullAt(backupFile) = {} /\ ~run.fault
  /\ SnapshotKeys(backupFile) # {}
  /\ ValidSeed(seedFiles[1])
  /\ SeedKeys(seedFiles, TRUE) \ SnapshotKeys(backupFile) # {}
  /\ outcome = "restored"

\* C4: malformed-backup resilience. When the run found the vocabulary table empty
\* and the snapshot is not JSON, and no store statement or file read failed, the
\* run does not throw and ends seeded: every pair of every valid seed file is
\* stored and every stored triple comes from a seed file.
C4_MalformedBackup ==
  (RunReturned /\ pre.voc = {} /\ backupFile.kind = "invalid" /\ ~run.fault) =>
    /\ outcome = "seeded"
    /\ ~run.threw
    /\ pc = "serving"
    /\ SeedKeys(seedFiles, TRUE) \subseteq Keys(vocabulary)
    /\ Keys(vocabulary) \subseteq SeedKeys(seedFiles, FALSE)

\* C4 witness: a run over an unparsable snapshot that stored the pairs of a seed file
C4_Witness ==
  /\ RunReturned /\ pre.voc = {} /\ backupFile.kind = "invalid" /\ ~run.fault
  /\ outcome = "seeded"
  /\ Cardinality(vocabulary) >= 2

C6_RunKeepsRows ==
  (InRun /\ ~run.fault) =>
    /\ pre.voc \subseteq vocabulary
    /\ Unique(vocabulary)
    /\ \A s \in DOMAIN pre.les : s \in DOMAIN lessons /\ lessons[s] = pre.les[s]

\* C7: the steps of a run happen in the order createTables, checkIfHasData,
\* tryRestoreFromBackup, importSeedFiles; the check starts only after createTables
\* has resolved, the restore only after the check found the table empty, the seed
\* import only after the restore returned false.
StepOrder == <<"createTables", "checkIfHasData", "tryRestoreFromBackup",
               "importSeedFiles">>

C7_StepOrder ==
  InRun =>
    /\ \A i \in 1 .. Len(run.steps) :
         \/ i <= Len(StepOrder) /\ run.steps[i] = StepOrder[i]
         \/ i = Len(run.steps) /\ run.steps[i] = "finally"
    /\ (pc = "checkIfHasData" \/ Ran("checkIfHasData")) =>
         (Ran("createTables") /\ ~run.tableErr)
    /\ (pc = "tryRestoreFromBackup" \/ Ran("tryRestoreFromBackup")) =>
         (Ran("checkIfHasData") /\ run.hasData = "false")
    /\ (pc = "importSeedFiles" \/ Ran("importSeedFiles")) =>
         (Ran("tryRestoreFromBackup") /\ run.restored = "false")

\* C7 witness: a run that went through all four steps and returned
C7_Witness ==
  /\ RunReturned
  /\ run.steps = StepOrder \o <<"finally">>

\* C8: when a run has returned or thrown, the handle it opened is closed.
C8_HandleClosed == RunReturned => handle = "closed"

C10_Dedup ==
  (InRun /\ run.steps = <<"createTables">> /\ ~run.dedupErr) =>
    /\ vocabulary \subseteq pre.voc
    /\ \A k \in Keys(pre.voc) :
         LET same == RowsWithKey(pre.voc, k)
         IN RowsWithKey(vocabulary, k) = {r \in same : \A q \in same : r.id <= q.id}

\* C10 witness: the pass has run over a table with two rows of one key and a row of
\* another
C10_Witness ==
  /\ InRun /\ run.steps = <<"createTables">> /\ ~run.dedupErr
  /\ \E k \in Keys(pre.voc) : Cardinality(RowsWithKey(pre.voc, k)) >= 2
  /\ \E k \in Keys(pre.voc) : Cardinality(RowsWithKey(pre.voc, k)) = 1
  /\ Cardinality(vocabulary) = 2

----------------------------------------------------------------------------
(* The Backup Writer and the requests that trigger it *)

\* A step in which an invocation of createAutoBackup settles with a failure
BackupFails ==
  /\ pc = "serving" /\ pc' = "serving"
  /\ BagCardinality(backups') < BagCardinality(backups)
  /\ lastBackup'.failure # "none"

\* C11: a failure inside the Backup Writer (creating the directory, reading the
\* store, writing the file) is never surfaced: the invocation completes without
\* throwing, and the response and the stored effect of the request that triggered
\* it stay what they are.
C11_FailureSwallowed ==
  [][BackupFails => (lastBackup'.outcome = "swallowed" /\ UNCHANGED <<storeVars, last>>)]_vars

\* The requests that change vocabulary rows
VocabularyMutations == {"addVocab", "updateVocab", "deleteVocab", "import"}

\* A step in which a request is answered; last' describes it
Answered == requests' = requests - 1

\* C12: a vocabulary mutation (POST /vocab/:lesson, admin PUT, admin DELETE, admin
\* import) that succeeds starts exactly one invocation of the Backup Writer, which
\* has read nothing before the store change is committed; one that fails
\* (validation error, unknown id, store error) starts none.
C12_OneBackupPerMutation ==
  [][(Answered /\ last'.op \in VocabularyMutations) =>
       backups' = IF last'.status = 200 THEN createAutoBackup(backups) ELSE backups]_vars

\* C12 witness: an update of a stored row succeeded and its one invocation has
\* started; nothing else is in flight
C12_Witness ==
  /\ last.op = "updateVocab"
  /\ last.status = 200
  /\ backups = createAutoBackup(EmptyBag)

\* C13: a successful POST /lessons starts an invocation of the Backup Writer after
\* the lessons row is upserted.
C13_LessonBackup ==
  [][(Answered /\ last'.op = "createLesson" /\ last'.status = 200) =>
       backups' = createAutoBackup(backups)]_vars

\* C14: once every triggered backup has finished (each wrote its file) and no
\* request is in flight, the snapshot's lessons and vocabulary are the content of the
\* store, in whatever order the mutations and their backups interleaved.
C14_SnapshotCurrent ==
  (/\ pc = "serving"
   /\ last.op \in VocabularyMutations
   /\ last.status = 200
   /\ backups = EmptyBag
   /\ lastBackup.outcome = "written"
   /\ ~lastBackup.failed)
    => WrittenFile = Snapshot(CurrentStore)

\* C15: backup round trip. When the store is re-created empty after a completed
\* backup, the next run of ensureDbInitialized yields the lessons rows and the
\* vocabulary triples of the snapshot the Backup Writer wrote, whether
\* AUTO_BACKUP_DIR is set or not.
C15_RoundTrip ==
  (RunReturned /\ ~run.fault /\ pre.voc = {} /\ DOMAIN pre.les = {}
     /\ WrittenFile.kind = "json")
    => /\ Keys(vocabulary) = SnapshotKeys(WrittenFile)
       /\ MatchesSnapshotLessons(lessons, WrittenFile)
----------------------------------------------------------------------------
(* POST /api/lessons *)

\* A step in which POST /api/lessons is answered and no store statement failed
LessonAnswered == Answered /\ last'.op = "createLesson" /\ last'.err = "none"

\* C16: slug allocation. POST /lessons allocates the number one above the highest
\* lesson number of the lessons table (1 when the table is empty; 4 when lessons 1..3
\* are present); the slug is not in the table when the request writes its row;
\* when lesson 99 is present the request is rejected and writes no row.
C16_SlugAllocation ==
  [][LessonAnswered =>
       IF LessonLimit \in DOMAIN lessons
       THEN last'.status = 400 /\ UNCHANGED storeVars
       ELSE LET slug == last'.key[1]
            IN /\ last'.status = 200
               /\ slug \notin DOMAIN lessons
               /\ DOMAIN lessons' = DOMAIN lessons \cup {slug}
               /\ \A m \in DOMAIN lessons : m < slug
               /\ slug = 1 \/ (slug - 1) \in DOMAIN lessons]_vars

\* C17 as stated: the entry_count of the new lessons row is the number of rows this
\* request inserted.
C17_CountsInserted ==
  [][(LessonAnswered /\ last'.status = 200) =>
       lessons'[last'.key[1]].entry_count = Cardinality(vocabulary' \ vocabulary)]_vars

\* C17, amended: the entry_count of the new lessons row is the number of vocabulary
\* rows stored under the slug after the request: the rows the request inserted and
\* the rows that were stored under the slug before.
C17_CountsRowsOfSlug ==
  [][(LessonAnswered /\ last'.status = 200) =>
       lessons'[last'.key[1]].entry_count =
         Cardinality(vocabulary' \ vocabulary)
           + Cardinality({r \in vocabulary : r.lesson = last'.key[1]})]_vars

\* C17 witness: a lesson was created under a slug that had a row before, and its
\* entry_count exceeds the pairs of the upload
C17_Witness ==
  /\ last.op = "createLesson"
  /\ last.status = 200
  /\ last.keys # {}
  /\ lessons[last.key[1]].entry_count > Cardinality(last.keys)
----------------------------------------------------------------------------
(* The seed importer's lessons rows *)

\* A run that found the store empty, restored nothing and imported the seed files,
\* no statement failing
SeededRun ==
  /\ RunReturned
  /\ Ran("importSeedFiles")
  /\ ~run.fault
  /\ ~StructurallyValid(backupFile)

\* The rows of lesson n that the run inserted
Inserted(n) == {r \in vocabulary : r.lesson = n /\ r \notin pre.voc}

\* JSON.parse throws, the value is no array, or an element of the array is no pair
Malformed(c) ==
  \/ c.kind \in {"unparsable", "notArray"}
  \/ c.kind = "array" /\ \E i \in 1 .. Len(c.data) : c.data[i].isNull

\* C18: after the seed importer has imported a lesson file, the entry_count of the
\* lessons row is the number of pairs the pass inserted into vocabulary for that
\* lesson; a pair ignored on conflict (listed twice in the file) is not counted.
C18_SeedEntryCount ==
  SeededRun =>
    \A n \in SeedLessons :
      ValidSeed(seedFiles[n]) =>
        /\ n \in DOMAIN lessons
        /\ lessons[n].entry_count = Cardinality(Inserted(n))

\* C19: a malformed seed file (unparsable, no array, or an array with an element
\* that is no pair) makes the importer skip that lesson only: no vocabulary row and
\* no lessons row is stored for its slug, every other lesson of the list is
\* imported, and ensureDbInitialized does not throw.
C19_MalformedSkipped ==
  SeededRun =>
    /\ ~run.threw
    /\ \A n \in SeedLessons :
         /\ Malformed(seedFiles[n]) => (Inserted(n) = {} /\ n \notin DOMAIN lessons)
         /\ ValidSeed(seedFiles[n]) =>
              /\ n \in DOMAIN lessons
              /\ \A i \in 1 .. Len(seedFiles[n].data) :
                   OneRow(<<n, seedFiles[n].data[i].de, seedFiles[n].data[i].en>>)

----------------------------------------------------------------------------
(* POST /api/vocab/:lesson with a stored triple *)

\* C20: POST /vocab/:lesson with a triple that is already stored is answered with
\* a response that differs from the one given for a generic store failure, and
\* leaves the store unchanged.
C20_DuplicateDistinguishable ==
  [][(Answered /\ last'.op = "addVocab" /\ last'.valid /\ last'.had
        /\ last'.err = "SQLITE_CONSTRAINT") =>
       /\ UNCHANGED storeVars
       /\ [status |-> last'.status, body |-> last'.body]
            # PostVocabResponse(TRUE, StoreFailure)]_vars

----------------------------------------------------------------------------
(* DatabaseService on an open store *)

\* DatabaseService.getVocabByLesson(lesson): the rows of the lesson
getVocabByLesson(voc, n) == {r \in voc : r.lesson = n}

\* The rows with another id than i
OtherRows(voc, i) == {r \in voc : r.id # i}

\* C21: end to end on an open store. After addVocab(lesson, de, en) returned id,
\* getVocabByLesson(lesson) contains a row with that id and those texts; after
\* updateVocab(id, de2, en2) changed a row, it contains the row with the same id and
\* the new texts; after deleteVocab(id) it contains no row with that id; the rows
\* with other ids are unchanged by the three operations.
C21_EndToEnd ==
  [][(Answered /\ last'.status = 200) =>
       LET i == last'.id
           k == last'.key
       IN /\ last'.op = "addVocab" =>
               /\ Row(i, k) \in getVocabByLesson(vocabulary', k[1])
               /\ i \notin Ids(vocabulary)
               /\ OtherRows(vocabulary', i) = vocabulary
          /\ last'.op = "updateVocab" =>
               /\ Row(i, k) \in getVocabByLesson(vocabulary', k[1])
               /\ \E r \in vocabulary : r.id = i /\ r.lesson = k[1]
               /\ Cardinality({r \in vocabulary' : r.id = i}) = 1
               /\ OtherRows(vocabulary', i) = OtherRows(vocabulary, i)
          /\ last'.op = "deleteVocab" =>
               /\ \A n \in LessonIds : i \notin Ids(getVocabByLesson(vocabulary', n))
               /\ i \in Ids(vocabulary)
               /\ OtherRows(vocabulary', i) = OtherRows(vocabulary, i)]_vars

\* C21 witness: a row was updated while another row was stored; it has kept its id
\* and lesson and carries the new texts
C21_Witness ==
  /\ last.op = "updateVocab"
  /\ last.status = 200
  /\ Row(last.id, last.key) \in getVocabByLesson(vocabulary, last.key[1])
  /\ Cardinality(vocabulary) >= 2


----------------------------------------------------------------------------
(* The admin routes behind requireApiKey *)

\* The operations of the routes registered with requireApiKey
AdminOps == {"updateVocab", "deleteVocab", "import", "export"}

\* C22: a request to an admin route gets past requireApiKey (is answered by its
\* handler, not with 401) only when its X-API-Key header equals a configured
\* ADMIN_API_KEY; with the header missing or wrong, or no secret configured, the
\* answer is 401, the handler does not run: the store, the started backups and the
\* snapshot files are as they were
C22_ApiKeyGate ==
  [][(Answered /\ last'.op \in AdminOps) =>
       IF last'.expectedKey \notin {NULL, ""} /\ last'.apiKey = last'.expectedKey
       THEN last'.status # 401
       ELSE /\ last'.status = 401
            /\ UNCHANGED <<storeVars, backups, backupFile, overrideFile>>]_vars

\* No secret is configured, no header is sent: a delete of a populated store is
\* answered 401
C22_Witness ==
  /\ last.op = "deleteVocab"
  /\ last.status = 401
  /\ last.apiKey = NULL
  /\ last.expectedKey = NULL
  /\ vocabulary # {}


----------------------------------------------------------------------------
(* start() *)

\* C23: the server starts to listen only when ensureDbInitialized has returned
\* without throwing (its finally block has run and no step rejected); when it
\* throws, the process exits; a request is answered only by a process that listens
C23_ListenAfterInit ==
  [][/\ (pc' = "serving" /\ pc # "serving") =>
          (pc = "finally" /\ outcome # "error" /\ Ran("createTables"))
     /\ (pc = "finally" /\ outcome = "error") => pc' = "stopped"
     /\ Answered => (pc = "serving" /\ outcome # "error")]_vars

\* ensureDbInitialized has thrown: the process has exited and has answered nothing
C23_Witness ==
  /\ RunReturned
  /\ outcome = "error"
  /\ pc = "stopped"
  /\ requests = MaxOps


----------------------------------------------------------------------------
(* The length of the stored texts *)

\* C24: every stored vocabulary row has a source text and a target text of at most
\* 60 characters, whatever path wrote it
C24_TextLength ==
  \A r \in vocabulary : Len(r.de) <= MaxTextLength /\ Len(r.en) <= MaxTextLength


----------------------------------------------------------------------------
(* A restore that reports no backup *)

\* C25: whenever tryRestoreFromBackup returns false (the run goes on to the seed
\* import) it has left the store exactly as it found it
C25_FalseLeavesStore ==
  [][(pc = "tryRestoreFromBackup" /\ pc' = "importSeedFiles") =>
       UNCHANGED storeVars]_vars


----------------------------------------------------------------------------
(* A snapshot without vocabulary *)

\* A seed file that is an array of well-formed pairs, at least one
NonEmptySeed(c) == ValidSeed(c) /\ Len(c.data) > 0

\* C26: after ensureDbInitialized has returned successfully on an empty store for
\* which a valid, non-empty seed file exists, the vocabulary table is non-empty,
\* whatever snapshot file is present
C26_PopulatedAfterInit ==
  ( /\ RunReturned
    /\ ~run.fault
    /\ outcome # "error"
    /\ pre = EmptyStore
    /\ \E n \in SeedLessons : NonEmptySeed(seedFiles[n]) )
  => vocabulary # {}


----------------------------------------------------------------------------
(* Concurrent POST /lessons requests *)

\* C27: two POST /lessons requests that both succeed are allocated different slugs,
\* also when both read the slugs before either writes its lessons row
C27_DistinctSlugs ==
  [][( /\ Answered
       /\ last.op = "createLesson" /\ last.status = 200
       /\ last'.op = "createLesson" /\ last'.status = 200 )
     => last'.key[1] # last.key[1]]_vars


----------------------------------------------------------------------------
(* The two reads of createAutoBackup *)

\* C28: every snapshot written by createAutoBackup is a point-in-time copy: its
\* lessons and its vocabulary are the content of the store at one single instant,
\* also when a mutation commits between the read of lessons and the read of
\* vocabulary
C28_PointInTime == lastBackup.outcome = "written" => ~lastBackup.torn


----------------------------------------------------------------------------
(* The handles of the routes and of createAutoBackup *)

\* C29: every store handle opened for one operation (createAutoBackup, POST
\* /lessons, GET /admin/export, POST /admin/import) is closed exactly once on every
\* path of the operation: never left open, never closed twice
C29_ClosedOnce ==
  /\ last.closes = last.opened
  /\ lastBackup.outcome # "none" => lastBackup.closes = 1


----------------------------------------------------------------------------
(* The browser: main.ts, state.ts, render/words.ts *)

\* The server has seeded its store (lesson01: Haus, Baum; lesson02: Haus) and
\* listens; a page is opened
InitBrowser ==
  LET files == Seeds(SeedFile("array", <<SeedPair("Haus", "house"),
                                         SeedPair("Baum", "house")>>), HausSeed)
      st == ImportSeedFiles(EmptyStore, TRUE, files, 0, FALSE, 1).st
  IN /\ vocabulary = st.voc
     /\ autoinc = st.ai
     /\ lessons = st.les
     /\ uniqueKey = TRUE
     /\ backupFile = AbsentFile
     /\ seedFiles = files
     /\ pc = "serving"
     /\ handle = "closed"
     /\ openStmts = 0
     /\ outcome = "seeded"
     /\ run = [NoRun EXCEPT !.steps = Append(StepOrder, "finally"),
                            !.hasData = "false", !.restored = "false"]
     /\ pre = EmptyStore
     /\ epoch = 1
     /\ requests = MaxOps
     /\ clients = "paced"
     /\ backupDir = "default"
     /\ overrideFile = AbsentFile
     /\ creating = EmptyBag
     /\ backups = EmptyBag
     /\ lastBackup = NoBackup
     /\ last = NoRequest
     /\ state = InitialState
     /\ page = NoPage

serverVars == <<storeVars, uniqueKey, backupFile, seedFiles, backupDir, overrideFile,
                clients, initVars, run, pre, apiVars>>

\* fetchVocab(state.currentLesson) is called: the request leaves, the caller awaits
fetchVocab(p, n) ==
  [p EXCEPT !.fetches = @ (+) SetToBag({n}), !.calls = @ + 1]

\* DOMContentLoaded: setupDom(), fetchLessonsAndPopulate() selects the first lesson
\* of the list, its words are requested by initVocab()
DomContentLoaded ==
  /\ ~page.loaded
  /\ pc = "serving"
  /\ DOMAIN lessons # {}
  /\ LET first == Min(DOMAIN lessons)
     IN /\ state' = [state EXCEPT !.currentLesson = first]
        /\ page' = fetchVocab([page EXCEPT !.loaded = TRUE], first)
  /\ UNCHANGED serverVars

\* switchLesson(): the selector's change event; state.currentLesson is set and
\* initVocab() is called, not awaited
switchLesson ==
  /\ page.loaded
  /\ page.calls < MaxFetches
  /\ \E n \in DOMAIN lessons :
       /\ n # state.currentLesson
       /\ state' = [state EXCEPT !.currentLesson = n]
       /\ page' = fetchVocab(page, n)
  /\ UNCHANGED serverVars

\* renderWords(): the words of state.vocab replace those on the page
renderWords(p, vocab) ==
  [p EXCEPT !.german = {r.de : r \in vocab}, !.english = {r.en : r \in vocab}]

\* initVocab() after its await: a response has arrived, whichever request it
\* answers; state.vocab = data (shuffled), renderWords()
initVocab ==
  /\ \E n \in BagToSet(page.fetches) :
       LET data == getVocabByLesson(vocabulary, n)
       IN /\ state' = [state EXCEPT !.vocab = data]
          /\ page' = renderWords([page EXCEPT !.fetches = @ (-) SetToBag({n})], data)
  /\ UNCHANGED serverVars

\* initVocab(), catch block: the fetch failed or was answered with an error status;
\* a toast is shown, state and words stay
initVocabFailed ==
  /\ \E n \in BagToSet(page.fetches) :
       page' = [page EXCEPT !.fetches = @ (-) SetToBag({n}), !.failed = TRUE]
  /\ UNCHANGED <<serverVars, state>>

NextBrowser ==
  \/ DomContentLoaded
  \/ switchLesson
  \/ initVocab
  \/ initVocabFailed

SpecBrowser == InitBrowser /\ [][NextBrowser]_vars

\* C30: after any sequence of lesson switches, once all vocabulary fetches have
\* completed (none of them failed), the words in state.vocab and on the page are
\* those of state.currentLesson
C30_CurrentLessonShown ==
  (page.loaded /\ page.fetches = EmptyBag /\ ~page.failed) =>
    LET words == getVocabByLesson(vocabulary, state.currentLesson)
    IN /\ state.vocab = words
       /\ page.german = {r.de : r \in words}
       /\ page.english = {r.en : r \in words}

=============================================================================
